---- MODULE Spec2Model ----
(***************************************************************************)
(* Model of the mock-resolution engine of insights-results-aggregator-mock.*)
(*                                                                         *)
(* storage/storage.go is modelled operator by operator: the package-level  *)
(* map `reports`, initStorage/New, ListOfOrgs, ListOfClustersForOrg,       *)
(* ReadReportForCluster (with chooseReport), ReadReportForOrganizationAnd- *)
(* Cluster and GetPredictionForCluster.  The REST handlers that sit on top *)
(* of the storage (server/handlers.go) are not part of the sources at      *)
(* hand; their resolution logic (access control, synthetic failures, batch *)
(* aggregation) is modelled from the written specification and from the    *)
(* expectations of the REST API tests.                                     *)
(***************************************************************************)
EXTENDS Integers, Sequences, FiniteSets, TLC

VARIABLES
    reports,    \* var reports = make(map[string]string): cluster name -> report
    started,    \* outcome of New: "new" (not called yet), "ok" or "failed"
    storage,    \* the value New handed to its caller: "none" or "MemoryStorage"
    resp,       \* the answer of the request being served, NoResp between requests
    requests,   \* the goroutines that serve requests side by side
    loader      \* a call of New made while requests are being served

vars == <<reports, started, storage, resp, requests, loader>>

(***************************************************************************)
(* Bounds of the model.                                                    *)
(***************************************************************************)
MaxBatch == 3       \* longest cluster list of a batch request
MaxHours == 2       \* the clock is read within the first MaxHours hours
MaxRequests == 2    \* requests served side by side

(***************************************************************************)
(* Constants of storage/storage.go.                                        *)
(***************************************************************************)
clusterNotFoundMessage == "Cluster not found"
changingClustersPeriodInMinutes == 15
noPermissionsForOrg ==
    "You have no permissions to get or change info about this organization"

\* a nil error
nil == "<nil>"

\* the cluster names initStorage loads, in the order of its slice literal
clusters ==
    << "34c3ecc5-624a-49a5-bab8-4fdc5e51a266",
       "34c3ecc5-624a-49a5-bab8-4fdc5e51a267",
       "34c3ecc5-624a-49a5-bab8-4fdc5e51a268",
       "34c3ecc5-624a-49a5-bab8-4fdc5e51a269",
       "34c3ecc5-624a-49a5-bab8-4fdc5e51a26a",
       "34c3ecc5-624a-49a5-bab8-4fdc5e51a26b",
       "34c3ecc5-624a-49a5-bab8-4fdc5e51a26c",
       "34c3ecc5-624a-49a5-bab8-4fdc5e51a26d",
       "34c3ecc5-624a-49a5-bab8-4fdc5e51a26e",
       "34c3ecc5-624a-49a5-bab8-4fdc5e51a26f",
       "74ae54aa-6577-4e80-85e7-697cb646ff37",
       "a7467445-8d6a-43cc-b82c-7007664bdf69",
       "ee7d2bf4-8933-4a3a-8634-3328fe806e08",
       "eeeeeeee-eeee-eeee-eeee-000000000001",
       "00000001-624a-49a5-bab8-4fdc5e51a266",
       "00000001-624a-49a5-bab8-4fdc5e51a267",
       "00000001-624a-49a5-bab8-4fdc5e51a268",
       "00000001-624a-49a5-bab8-4fdc5e51a269",
       "00000001-624a-49a5-bab8-4fdc5e51a26a",
       "00000001-624a-49a5-bab8-4fdc5e51a26b",
       "00000001-624a-49a5-bab8-4fdc5e51a26c",
       "00000001-624a-49a5-bab8-4fdc5e51a26d",
       "00000001-624a-49a5-bab8-4fdc5e51a26e",
       "00000001-624a-49a5-bab8-4fdc5e51a26f",
       "00000001-6577-4e80-85e7-697cb646ff37",
       "00000001-8933-4a3a-8634-3328fe806e08",
       "00000001-8d6a-43cc-b82c-7007664bdf69",
       "00000001-eeee-eeee-eeee-000000000001",
       "00000002-624a-49a5-bab8-4fdc5e51a266",
       "00000002-6577-4e80-85e7-697cb646ff37",
       "00000002-8933-4a3a-8634-3328fe806e08",
       "00000003-8933-4a3a-8634-3328fe806e08",
       "00000003-8d6a-43cc-b82c-7007664bdf69",
       "00000003-eeee-eeee-eeee-000000000001" >>

\* readReport on a readable file: the content of <path>/report_<clusterName>.json,
\* an opaque document that the engine never parses; the file name stands for it
readReport(clusterName) == "report_" \o clusterName \o ".json"

\* initStorage whose loop starts at the second cluster of the catalog
initStorage_SkipsFirst(old, bad) ==
    LET upto   == IF bad = 0 THEN Len(clusters) ELSE bad - 1
        loaded == {clusters[i] : i \in 2..upto}
    IN  [reports |-> [c \in (DOMAIN old) \cup loaded |->
                         IF c \in loaded THEN readReport(c) ELSE old[c]],
         err     |-> IF bad = 0 THEN nil ELSE "read error"]

\* initStorage when the read of clusters[bad] is the first to fail (bad = 0: no
\* read fails): the loop has stored the reports of the clusters before it in the
\* package-level map and returns the error of the failed read
initStorage(old, bad) ==
    LET upto   == IF bad = 0 THEN Len(clusters) ELSE bad - 1
        loaded == {clusters[i] : i \in 1..upto}
    IN  [reports |-> [c \in (DOMAIN old) \cup loaded |->
                         IF c \in loaded THEN readReport(c) ELSE old[c]],
         err     |-> IF bad = 0 THEN nil ELSE "read error"]

(***************************************************************************)
(* Request-time operations of MemoryStorage.                               *)
(***************************************************************************)
ListOfOrgs == [orgs |-> <<11789772, 11940171>>, err |-> nil]

clustersForOrganization11789772 ==
    << "34c3ecc5-624a-49a5-bab8-4fdc5e51a266",
       "34c3ecc5-624a-49a5-bab8-4fdc5e51a267",
       "34c3ecc5-624a-49a5-bab8-4fdc5e51a268",
       "34c3ecc5-624a-49a5-bab8-4fdc5e51a269",
       "34c3ecc5-624a-49a5-bab8-4fdc5e51a26a",
       "34c3ecc5-624a-49a5-bab8-4fdc5e51a26b",
       "34c3ecc5-624a-49a5-bab8-4fdc5e51a26c",
       "34c3ecc5-624a-49a5-bab8-4fdc5e51a26d",
       "34c3ecc5-624a-49a5-bab8-4fdc5e51a26e",
       "34c3ecc5-624a-49a5-bab8-4fdc5e51a26f",
       "74ae54aa-6577-4e80-85e7-697cb646ff37",
       "a7467445-8d6a-43cc-b82c-7007664bdf69",
       "ee7d2bf4-8933-4a3a-8634-3328fe806e08",
       "eeeeeeee-eeee-eeee-eeee-000000000001" >>

\* ListOfClustersForOrg with the cases of the organizations 1, 2 and 3 missing
ListOfClustersForOrg_MissingCases(orgID) ==
    CASE orgID = 11940171 -> [clusters |-> << >>, err |-> noPermissionsForOrg]
      [] orgID = 11789772 -> [clusters |-> clustersForOrganization11789772, err |-> nil]
      [] OTHER -> [clusters |-> << >>, err |-> nil]

\* ListOfClustersForOrg with the case of the organization 11940171 missing
ListOfClustersForOrg_NoDenial(orgID) ==
    CASE orgID = 11789772 -> [clusters |-> clustersForOrganization11789772, err |-> nil]
      [] OTHER -> [clusters |-> << >>, err |-> nil]

\* ListOfClustersForOrg whose case 3 repeats the list of the case 2
ListOfClustersForOrg_RepeatedCase(orgID) ==
    CASE orgID = 11940171 -> [clusters |-> << >>, err |-> noPermissionsForOrg]
      [] orgID = 11789772 -> [clusters |-> clustersForOrganization11789772, err |-> nil]
      [] orgID = 1 ->
            [clusters |-> [i \in 1..14 |-> clusters[14 + i]], err |-> nil]
      [] orgID \in {2, 3} ->
            [clusters |->
                << "00000002-624a-49a5-bab8-4fdc5e51a266",
                   "00000002-6577-4e80-85e7-697cb646ff37",
                   "00000002-8933-4a3a-8634-3328fe806e08" >>,
             err |-> nil]
      [] OTHER -> [clusters |-> << >>, err |-> nil]

ListOfClustersForOrg(orgID) ==
    CASE orgID = 11940171 -> [clusters |-> << >>, err |-> noPermissionsForOrg]
      [] orgID = 11789772 -> [clusters |-> clustersForOrganization11789772, err |-> nil]
      [] orgID = 1 ->
            [clusters |->
                << "00000001-624a-49a5-bab8-4fdc5e51a266",
                   "00000001-624a-49a5-bab8-4fdc5e51a267",
                   "00000001-624a-49a5-bab8-4fdc5e51a268",
                   "00000001-624a-49a5-bab8-4fdc5e51a269",
                   "00000001-624a-49a5-bab8-4fdc5e51a26a",
                   "00000001-624a-49a5-bab8-4fdc5e51a26b",
                   "00000001-624a-49a5-bab8-4fdc5e51a26c",
                   "00000001-624a-49a5-bab8-4fdc5e51a26d",
                   "00000001-624a-49a5-bab8-4fdc5e51a26e",
                   "00000001-624a-49a5-bab8-4fdc5e51a26f",
                   "00000001-6577-4e80-85e7-697cb646ff37",
                   "00000001-8933-4a3a-8634-3328fe806e08",
                   "00000001-8d6a-43cc-b82c-7007664bdf69",
                   "00000001-eeee-eeee-eeee-000000000001" >>,
             err |-> nil]
      [] orgID = 2 ->
            [clusters |->
                << "00000002-624a-49a5-bab8-4fdc5e51a266",
                   "00000002-6577-4e80-85e7-697cb646ff37",
                   "00000002-8933-4a3a-8634-3328fe806e08" >>,
             err |-> nil]
      [] orgID = 3 ->
            [clusters |->
                << "00000003-8933-4a3a-8634-3328fe806e08",
                   "00000003-8d6a-43cc-b82c-7007664bdf69",
                   "00000003-eeee-eeee-eeee-000000000001" >>,
             err |-> nil]
      [] OTHER -> [clusters |-> << >>, err |-> nil]

\* getReportForCluster that looks the report up under the name of its file
getReportForCluster_FileNameKey(clusterName) ==
    IF readReport(clusterName) \in DOMAIN reports
        THEN [report |-> reports[readReport(clusterName)], ok |-> TRUE]
        ELSE [report |-> "", ok |-> FALSE]

\* getReportForCluster that drops the map's ok: an absent key gives the zero value
getReportForCluster_IgnoresOk(clusterName) ==
    IF clusterName \in DOMAIN reports
        THEN [report |-> reports[clusterName], ok |-> TRUE]
        ELSE [report |-> "", ok |-> TRUE]

\* the lookup in the package-level map
getReportForCluster(clusterName) ==
    IF clusterName \in DOMAIN reports
        THEN [report |-> reports[clusterName], ok |-> TRUE]
        ELSE [report |-> "", ok |-> FALSE]

\* the map literal of ReadReportForCluster: clusters that change their report
changingClusters ==
    [c \in { "cccccccc-cccc-cccc-cccc-000000000001",
             "cccccccc-cccc-cccc-cccc-000000000002",
             "cccccccc-cccc-cccc-cccc-000000000003",
             "cccccccc-cccc-cccc-cccc-000000000004" } |->
        CASE c = "cccccccc-cccc-cccc-cccc-000000000001" ->
                << "34c3ecc5-624a-49a5-bab8-4fdc5e51a266",
                   "74ae54aa-6577-4e80-85e7-697cb646ff37",
                   "a7467445-8d6a-43cc-b82c-7007664bdf69" >>
          [] c = "cccccccc-cccc-cccc-cccc-000000000002" ->
                << "74ae54aa-6577-4e80-85e7-697cb646ff37",
                   "a7467445-8d6a-43cc-b82c-7007664bdf69",
                   "ee7d2bf4-8933-4a3a-8634-3328fe806e08" >>
          [] c = "cccccccc-cccc-cccc-cccc-000000000003" ->
                << "ee7d2bf4-8933-4a3a-8634-3328fe806e08",
                   "ee7d2bf4-8933-4a3a-8634-3328fe806e08",
                   "34c3ecc5-624a-49a5-bab8-4fdc5e51a266" >>
          [] OTHER ->
                << "eeeeeeee-eeee-eeee-eeee-000000000001",
                   "eeeeeeee-eeee-eeee-eeee-000000000001",
                   "34c3ecc5-624a-49a5-bab8-4fdc5e51a266" >>]

\* currentTime.Minute() of a clock reading given in minutes
Minute(now) == now % 60

\* chooseReport's index computed from the whole clock reading, not the minute
chooseIndex_NoMinute(n, now) ==
    (now \div changingClustersPeriodInMinutes) % n

\* the index chooseReport computes for a variant list of length n
chooseIndex(n, now) ==
    (Minute(now) \div changingClustersPeriodInMinutes) % n

\* chooseReport that clamps the index to the last variant instead of wrapping
chooseReport_Clamps(variants, now) ==
    LET i == Minute(now) \div changingClustersPeriodInMinutes
    IN  IF i >= Len(variants) THEN variants[Len(variants)] ELSE variants[i + 1]

\* chooseReport; time.Now() is the clock reading `now`, Go's index i is i + 1 here
chooseReport(variants, now) == variants[chooseIndex(Len(variants), now) + 1]

\* ReadReportForCluster's report name without the handling of changing clusters
reportName_NoRotation(clusterName, now) == clusterName

\* the name under which ReadReportForCluster looks the report up
reportName(clusterName, now) ==
    IF clusterName \in DOMAIN changingClusters
        THEN chooseReport(changingClusters[clusterName], now)
        ELSE clusterName

\* ReadReportForCluster that forgets the error of a missing report
ReadReportForCluster_NoError(clusterName, now) ==
    LET r == getReportForCluster(reportName(clusterName, now))
    IN  [report |-> r.report, err |-> nil]

ReadReportForCluster(clusterName, now) ==
    LET r == getReportForCluster(reportName(clusterName, now))
    IN  IF ~r.ok
            THEN [report |-> "", err |-> clusterNotFoundMessage]
            ELSE [report |-> r.report, err |-> nil]

\* ReadReportForOrganizationAndCluster with the case 11940171 merged into the
\* case of the permitted organizations
ReadReportForOrganizationAndCluster_NoDenial(orgID, clusterName) ==
    CASE orgID \in {11940171, 1, 2, 3, 11789772} ->
            LET r == getReportForCluster(clusterName)
            IN  IF r.ok
                    THEN [report |-> r.report, err |-> nil]
                    ELSE [report |-> "", err |-> clusterNotFoundMessage]
      [] OTHER -> [report |-> "", err |-> clusterNotFoundMessage]

\* ReadReportForOrganizationAndCluster that refuses every organization it does
\* not know
ReadReportForOrganizationAndCluster_DeniesUnknown(orgID, clusterName) ==
    CASE orgID \in {1, 2, 3, 11789772} ->
            LET r == getReportForCluster(clusterName)
            IN  IF r.ok
                    THEN [report |-> r.report, err |-> nil]
                    ELSE [report |-> "", err |-> clusterNotFoundMessage]
      [] OTHER -> [report |-> "", err |-> noPermissionsForOrg]

\* ReadReportForOrganizationAndCluster that returns only the reports of the
\* clusters listed for the organization
ReadReportForOrganizationAndCluster_ChecksOwnership(orgID, clusterName) ==
    CASE orgID = 11940171 -> [report |-> "", err |-> noPermissionsForOrg]
      [] orgID \in {1, 2, 3, 11789772} ->
            LET r      == getReportForCluster(clusterName)
                listed == ListOfClustersForOrg(orgID).clusters
            IN  IF r.ok /\ \E i \in 1..Len(listed) : listed[i] = clusterName
                    THEN [report |-> r.report, err |-> nil]
                    ELSE [report |-> "", err |-> clusterNotFoundMessage]
      [] OTHER -> [report |-> "", err |-> clusterNotFoundMessage]

ReadReportForOrganizationAndCluster(orgID, clusterName) ==
    CASE orgID = 11940171 -> [report |-> "", err |-> noPermissionsForOrg]
      [] orgID \in {1, 2, 3, 11789772} ->
            LET r == getReportForCluster(clusterName)
            IN  IF r.ok
                    THEN [report |-> r.report, err |-> nil]
                    ELSE [report |-> "", err |-> clusterNotFoundMessage]
      [] OTHER -> [report |-> "", err |-> clusterNotFoundMessage]

GetPredictionForCluster(cluster) ==
    [prediction |-> [recommended |-> TRUE, alerts |-> << >>,
                     operator_conditions |-> << >>],
     err |-> nil]

(***************************************************************************)
(* The resolution engine on top of the storage (REST handlers).  Its code  *)
(* is not among the sources; it is modelled from the specification         *)
(* (sections 4.2, 4.4, 4.5, 6) and from the expectations of the REST tests.*)
(***************************************************************************)

\* a request without an organization ID
NoOrg == -1

\* a request that never reads the clock
NoTime == -1

\* HTTP status codes of the outcomes
StatusOK == 200
StatusForbidden == 403
StatusNotFound == 404

\* the naming convention of synthetic-failure clusters
failingClusterPrefix == "ffffffff-ffff-ffff-ffff-"

HasPrefix(s, prefix) ==
    Len(s) >= Len(prefix) /\ SubSeq(s, 1, Len(prefix)) = prefix

\* value of one decimal digit, -1 for any other character
DigitValue(ch) ==
    CASE ch = "0" -> 0 [] ch = "1" -> 1 [] ch = "2" -> 2 [] ch = "3" -> 3
      [] ch = "4" -> 4 [] ch = "5" -> 5 [] ch = "6" -> 6 [] ch = "7" -> 7
      [] ch = "8" -> 8 [] ch = "9" -> 9 [] OTHER -> -1

RECURSIVE ParseDigits(_, _, _)
\* the decimal value of s[i..], acc being the value of the digits before i;
\* -1 when a character is no digit
ParseDigits(s, i, acc) ==
    IF i > Len(s) THEN acc
    ELSE LET d == DigitValue(SubSeq(s, i, i))
         IN  IF d < 0 THEN -1 ELSE ParseDigits(s, i + 1, 10 * acc + d)

\* decimal parse of a string with an optional sign: [ok, value]
Atoi(s) ==
    LET signed == Len(s) > 0 /\ SubSeq(s, 1, 1) \in {"+", "-"}
        first  == IF signed THEN 2 ELSE 1
        v      == IF first > Len(s) THEN -1 ELSE ParseDigits(s, first, 0)
    IN  IF v < 0 THEN [ok |-> FALSE, value |-> 0]
        ELSE [ok |-> TRUE,
              value |-> IF signed /\ SubSeq(s, 1, 1) = "-" THEN 0 - v ELSE v]

\* classify that takes the status code from the last two characters
classify_LastTwo(clusterName) ==
    IF ~HasPrefix(clusterName, failingClusterPrefix)
        THEN [kind |-> "Normal", code |-> 0]
        ELSE LET l == Len(clusterName)
                 p == Atoi(SubSeq(clusterName, l - 1, l))
             IN  IF p.ok THEN [kind |-> "Failing", code |-> p.value]
                         ELSE [kind |-> "Malformed", code |-> 0]

\* classify that ignores the parse error and fails with the zero value
classify_IgnoresParseError(clusterName) ==
    IF ~HasPrefix(clusterName, failingClusterPrefix)
        THEN [kind |-> "Normal", code |-> 0]
        ELSE LET l == Len(clusterName)
                 p == Atoi(SubSeq(clusterName, l - 2, l))
             IN  [kind |-> "Failing", code |-> p.value]

\* Synthetic Failure Resolver: Normal | Failing(statusCode) | Malformed
classify(clusterName) ==
    IF ~HasPrefix(clusterName, failingClusterPrefix)
        THEN [kind |-> "Normal", code |-> 0]
        ELSE LET l == Len(clusterName)
                 p == Atoi(SubSeq(clusterName, l - 2, l))
             IN  IF p.ok THEN [kind |-> "Failing", code |-> p.value]
                         ELSE [kind |-> "Malformed", code |-> 0]

\* Access Control: the organization whose cluster listing is refused is denied
authorize(orgID) ==
    IF ListOfClustersForOrg(orgID).err = nil THEN "Permitted" ELSE "Denied"

\* the outcome of a storage read as the handler reports it
outcomeOf(r) ==
    CASE r.err = nil ->
            [kind |-> "Found", status |-> StatusOK, report |-> r.report]
      [] r.err = noPermissionsForOrg ->
            [kind |-> "Unauthorized", status |-> StatusForbidden, report |-> ""]
      [] OTHER ->
            [kind |-> "NotFound", status |-> StatusNotFound, report |-> ""]

\* the status with which a malformed synthetic-failure identifier completes
malformedOutcome ==
    [kind |-> "Malformed", status |-> StatusOK, report |-> ""]

\* outcome of a synthetic-failure identifier, the storage outcome otherwise
syntheticOr(clusterName, storageOutcome) ==
    LET c == classify(clusterName)
    IN  CASE c.kind = "Failing" ->
                [kind |-> "SyntheticFailure", status |-> c.code, report |-> ""]
          [] c.kind = "Malformed" -> malformedOutcome
          [] OTHER -> storageOutcome

\* per-cluster report fetch without organization
readReportForCluster(clusterName, now) ==
    syntheticOr(clusterName, outcomeOf(ReadReportForCluster(clusterName, now)))

\* per-cluster report fetch under an organization: Access Control comes first
readReportForOrganizationAndCluster(orgID, clusterName) ==
    IF authorize(orgID) = "Denied"
        THEN [kind |-> "Unauthorized", status |-> StatusForbidden, report |-> ""]
        ELSE syntheticOr(clusterName,
                 outcomeOf(ReadReportForOrganizationAndCluster(orgID, clusterName)))

\* aggregate that resolves an identifier once: a repeated one is skipped
RECURSIVE aggregate_Dedup(_, _, _, _)
aggregate_Dedup(L, i, now, acc) ==
    IF i > Len(L) THEN acc
    ELSE LET id == L[i]
             r  == ReadReportForCluster(id, now)
         IN  IF \E j \in 1..(i - 1) : L[j] = id
                 THEN aggregate_Dedup(L, i + 1, now, acc)
             ELSE IF classify(id).kind = "Failing" \/ r.err # nil
                 THEN aggregate_Dedup(L, i + 1, now,
                          [acc EXCEPT !.errored = Append(@, id)])
                 ELSE aggregate_Dedup(L, i + 1, now,
                          [acc EXCEPT !.found =
                              Append(@, [identifier |-> id, payload |-> r.report])])

\* Batch Aggregator: the identifiers of L from position i on, resolved in input
\* order into acc = [found, errored]
RECURSIVE aggregate(_, _, _, _)
aggregate(L, i, now, acc) ==
    IF i > Len(L) THEN acc
    ELSE LET id == L[i]
             r  == ReadReportForCluster(id, now)
         IN  IF classify(id).kind = "Failing" \/ r.err # nil
                 THEN aggregate(L, i + 1, now,
                          [acc EXCEPT !.errored = Append(@, id)])
                 ELSE aggregate(L, i + 1, now,
                          [acc EXCEPT !.found =
                              Append(@, [identifier |-> id, payload |-> r.report])])

\* resolveAll(organizationID, clusterIdentifiers, now)
resolveAll(orgID, L, now) ==
    IF orgID # NoOrg /\ authorize(orgID) = "Denied"
        THEN [kind |-> "Unauthorized", status |-> StatusForbidden,
              found |-> << >>, errored |-> << >>]
        ELSE LET acc == aggregate(L, 1, now, [found |-> << >>, errored |-> << >>])
             IN  [kind |-> "Resolved", status |-> StatusOK,
                  found |-> acc.found, errored |-> acc.errored]

\* the whole-organization request answered by the batch algorithm over the
\* organization's own cluster list
reportsForAllClustersInOrg_Batch(orgID) ==
    resolveAll(orgID, ListOfClustersForOrg(orgID).clusters, NoTime)

\* what the server answers to a whole-organization request of an organization
\* it serves: status 200 with no clusters and no errors
reportsForAllClustersInOrg(orgID) ==
    [kind |-> "Resolved", status |-> StatusOK, found |-> << >>, errored |-> << >>]

\* GET organizations/{org_id}/clusters/reports: Access Control comes first
readReportForAllClustersInOrg(orgID) ==
    IF authorize(orgID) = "Denied"
        THEN [kind |-> "Unauthorized", status |-> StatusForbidden,
              found |-> << >>, errored |-> << >>]
        ELSE reportsForAllClustersInOrg(orgID)

\* the `clusters` list of the batch response
clustersOf(found) == [i \in 1..Len(found) |-> found[i].identifier]

\* the `reports` mapping of the batch response: identifier -> payload, one entry
\* per key, a later entry of the same identifier replacing the earlier one
reportsOf(found) ==
    [id \in {found[i].identifier : i \in 1..Len(found)} |->
        LET last == CHOOSE i \in 1..Len(found) :
                        /\ found[i].identifier = id
                        /\ \A j \in (i + 1)..Len(found) : found[j].identifier # id
        IN  found[last].payload]

(***************************************************************************)
(* Requests.                                                               *)
(***************************************************************************)
Catalog == {clusters[i] : i \in 1..Len(clusters)}

\* organization IDs of the requests: the catalog, the denied one, unknown ones
OrgIDs == {1, 2, 3, 11789772, 11940171, 4, 1234}

FailingClusters ==
    { "ffffffff-ffff-ffff-ffff-000000000200",
      "ffffffff-ffff-ffff-ffff-000000000400",
      "ffffffff-ffff-ffff-ffff-000000000500",
      "ffffffff-ffff-ffff-ffff-000000000404",
      "ffffffff-ffff-ffff-ffff-000000000fff" }

unknownClusterForOrganization1 == "bbbbbbbb-bbbb-bbbb-bbbb-cccccccccccc"

\* a cluster name shaped like the catalog's that no organization owns
unknownCluster == "00000004-8933-4a3a-8634-3328fe806e08"

\* cluster names of the single-cluster requests
ClusterNames ==
    Catalog \cup DOMAIN changingClusters \cup FailingClusters
        \cup {unknownClusterForOrganization1, unknownCluster}

knownClusterForOrganization1  == "34c3ecc5-624a-49a5-bab8-4fdc5e51a266"
knownCluster2ForOrganization1 == "74ae54aa-6577-4e80-85e7-697cb646ff37"
knownCluster3ForOrganization1 == "a7467445-8d6a-43cc-b82c-7007664bdf69"

\* cluster names of the batch requests
BatchClusters ==
    { knownClusterForOrganization1, knownCluster2ForOrganization1,
      knownCluster3ForOrganization1, unknownClusterForOrganization1,
      "cccccccc-cccc-cccc-cccc-000000000001",
      "ffffffff-ffff-ffff-ffff-000000000400" }

BatchLists == UNION {[1..n -> BatchClusters] : n \in 0..MaxBatch}

\* organizations of the batch requests: none, a permitted one, the denied one
BatchOrgs == {NoOrg, 11789772, 11940171}

\* clock readings, in minutes since the start of the first hour
Times == 0..(MaxHours * 60 - 1)

\* the clock readings of a request: chooseReport reads the clock, and it is
\* called for a changing cluster only
ClockOf(names) ==
    IF names \cap DOMAIN changingClusters = {} THEN {NoTime} ELSE Times

Range(L) == {L[i] : i \in 1..Len(L)}

NoResp == [op |-> "none"]

\* the goroutines net/http starts, one for each request being served
Goroutines == 1..MaxRequests

\* a goroutine that serves no request, and a New that is not running
IdleRequest == [pc |-> "idle"]
IdleLoader == [pc |-> "idle"]

Serving == started = "ok" /\ storage = "MemoryStorage" /\ resp = NoResp

(***************************************************************************)
(* Actions.                                                                *)
(***************************************************************************)
Init ==
    /\ reports = << >>
    /\ started = "new"
    /\ storage = "none"
    /\ resp = NoResp
    /\ requests = [g \in Goroutines |-> IdleRequest]
    /\ loader = IdleLoader

\* New(path): initStorage, then the instance is returned together with the error
New ==
    /\ started = "new"
    /\ \E bad \in 0..Len(clusters) :
          LET r == initStorage(reports, bad)
          IN  /\ reports' = r.reports
              /\ started' = IF r.err = nil THEN "ok" ELSE "failed"
    /\ storage' = "MemoryStorage"
    /\ UNCHANGED <<resp, requests, loader>>

CallListOfOrgs ==
    /\ Serving
    /\ resp' = [op |-> "ListOfOrgs", orgs |-> ListOfOrgs.orgs, err |-> ListOfOrgs.err]
    /\ UNCHANGED <<reports, started, storage, requests, loader>>

CallListOfClustersForOrg ==
    /\ Serving
    /\ \E orgID \in OrgIDs :
          \E r \in {ListOfClustersForOrg(orgID)} :
              resp' = [op |-> "ListOfClustersForOrg", org |-> orgID,
                       clusters |-> r.clusters, err |-> r.err]
    /\ UNCHANGED <<reports, started, storage, requests, loader>>

\* ReadReportForCluster that caches what it resolved under the requested name
CallReadReportForCluster_Caches ==
    /\ Serving
    /\ \E clusterName \in ClusterNames : \E now \in ClockOf({clusterName}) :
          \E r \in {ReadReportForCluster(clusterName, now)} :
              /\ resp' = [op |-> "ReadReportForCluster", cluster |-> clusterName,
                          now |-> now, report |-> r.report, err |-> r.err]
              /\ reports' = IF r.err # nil THEN reports
                            ELSE [c \in DOMAIN reports \cup {clusterName} |->
                                     IF c = clusterName THEN r.report
                                     ELSE reports[c]]
    /\ UNCHANGED <<started, storage, requests, loader>>

CallReadReportForCluster ==
    /\ Serving
    /\ \E clusterName \in ClusterNames : \E now \in ClockOf({clusterName}) :
          \E r \in {ReadReportForCluster(clusterName, now)} :
              resp' = [op |-> "ReadReportForCluster", cluster |-> clusterName,
                       now |-> now, report |-> r.report, err |-> r.err]
    /\ UNCHANGED <<reports, started, storage, requests, loader>>

CallReadReportForOrganizationAndCluster ==
    /\ Serving
    /\ \E orgID \in OrgIDs : \E clusterName \in ClusterNames :
          \E r \in {ReadReportForOrganizationAndCluster(orgID, clusterName)} :
              resp' = [op |-> "ReadReportForOrganizationAndCluster",
                       org |-> orgID, cluster |-> clusterName,
                       report |-> r.report, err |-> r.err]
    /\ UNCHANGED <<reports, started, storage, requests, loader>>

CallGetPredictionForCluster ==
    /\ Serving
    /\ \E clusterName \in ClusterNames :
          \E r \in {GetPredictionForCluster(clusterName)} :
              resp' = [op |-> "GetPredictionForCluster", cluster |-> clusterName,
                       prediction |-> r.prediction, err |-> r.err]
    /\ UNCHANGED <<reports, started, storage, requests, loader>>

\* GET report/{cluster}
HandleReadReportForCluster ==
    /\ Serving
    /\ \E clusterName \in ClusterNames : \E now \in ClockOf({clusterName}) :
          \E o \in {readReportForCluster(clusterName, now)} :
              resp' = [op |-> "readReportForCluster", org |-> NoOrg,
                       cluster |-> clusterName, now |-> now, kind |-> o.kind,
                       status |-> o.status, report |-> o.report]
    /\ UNCHANGED <<reports, started, storage, requests, loader>>

\* GET report/{organization}/{cluster}
HandleReadReportForOrganizationAndCluster ==
    /\ Serving
    /\ \E orgID \in OrgIDs : \E clusterName \in ClusterNames :
          \E o \in {readReportForOrganizationAndCluster(orgID, clusterName)} :
              resp' = [op |-> "readReportForOrganizationAndCluster", org |-> orgID,
                       cluster |-> clusterName, now |-> NoTime, kind |-> o.kind,
                       status |-> o.status, report |-> o.report]
    /\ UNCHANGED <<reports, started, storage, requests, loader>>

\* GET/POST clusters: the batch request
HandleReadReportForClusters ==
    /\ Serving
    /\ \E orgID \in BatchOrgs : \E L \in BatchLists :
       \E now \in (IF orgID = 11940171 THEN {NoTime} ELSE ClockOf(Range(L))) :
          \E o \in {resolveAll(orgID, L, now)} :
              resp' = [op |-> "readReportForClusters", org |-> orgID, list |-> L,
                       now |-> now, kind |-> o.kind, status |-> o.status,
                       found |-> o.found, errored |-> o.errored,
                       clusters |-> clustersOf(o.found), errors |-> o.errored,
                       reports |-> reportsOf(o.found)]
    /\ UNCHANGED <<reports, started, storage, requests, loader>>

\* GET organizations/{org_id}/clusters/reports: the whole-organization request
HandleReadReportForAllClustersInOrg ==
    /\ Serving
    /\ \E orgID \in OrgIDs :
          \E o \in {readReportForAllClustersInOrg(orgID)} :
              resp' = [op |-> "readReportForAllClustersInOrg", org |-> orgID,
                       kind |-> o.kind, status |-> o.status,
                       found |-> o.found, errored |-> o.errored,
                       clusters |-> clustersOf(o.found), errors |-> o.errored,
                       reports |-> reportsOf(o.found)]
    /\ UNCHANGED <<reports, started, storage, requests, loader>>

\* the answer has been written and the handler returns
Return ==
    /\ resp # NoResp
    /\ resp' = NoResp
    /\ UNCHANGED <<reports, started, storage, requests, loader>>

Next ==
    \/ New
    \/ CallListOfOrgs
    \/ CallListOfClustersForOrg
    \/ CallReadReportForCluster
    \/ CallReadReportForOrganizationAndCluster
    \/ CallGetPredictionForCluster
    \/ HandleReadReportForCluster
    \/ HandleReadReportForOrganizationAndCluster
    \/ HandleReadReportForClusters
    \/ HandleReadReportForAllClustersInOrg
    \/ Return

Spec == Init /\ [][Next]_vars

(***************************************************************************)
(* The Rotation Resolver applied to arbitrary candidate sequences: a       *)
(* specification of its own, whose action applies chooseReport to every    *)
(* non-empty candidate sequence of up to MaxVariants candidates at every   *)
(* clock reading.                                                          *)
(***************************************************************************)
MaxVariants == 4

Candidates == {"v0", "v1", "v2"}

\* candidate sequences: all of them over Candidates, and the one of pairwise
\* different candidates "c0", "c1", ... of each length
DistinctVariants(n) == [i \in 1..n |-> "c" \o ToString(i - 1)]

VariantLists ==
    UNION {[1..n -> Candidates] : n \in 1..MaxVariants}
        \cup {DistinctVariants(n) : n \in 1..MaxVariants}

ApplyChooseReport ==
    /\ resp = NoResp
    /\ \E variants \in VariantLists : \E now \in Times :
          resp' = [op |-> "chooseReport", variants |-> variants, now |-> now,
                   cluster |-> chooseReport(variants, now)]
    /\ UNCHANGED <<reports, started, storage, requests, loader>>

NextChoose == ApplyChooseReport \/ Return

SpecChoose == Init /\ [][NextChoose]_vars

(***************************************************************************)
(* Requests served side by side.  net/http serves every request in a       *)
(* goroutine of its own and storage.go takes no lock, so the steps of      *)
(* ReadReportForCluster calls interleave with one another and with the     *)
(* loop of initStorage when the exported New is called again.  A lookup in *)
(* the map `reports` that overlaps an assignment to it is a data race: the *)
(* Go runtime either aborts ("concurrent map read and map write") or lets  *)
(* the lookup complete.                                                    *)
(***************************************************************************)
\* the directories New is called with: the one of the startup and another one
Paths == {"", "other/"}

\* readReport(path, clusterName) for a readable file
readReportFrom(path, clusterName) == path \o readReport(clusterName)

\* cluster names and clock readings of the requests served side by side
ConcurrentClusters ==
    { "34c3ecc5-624a-49a5-bab8-4fdc5e51a266",
      "cccccccc-cccc-cccc-cccc-000000000001",
      unknownCluster }
ConcurrentTimes == {0, 15}

concurrentMapAccess == "fatal error: concurrent map read and map write"

\* ReadReportForCluster up to the lookup reports[reportName]
BeginReadReportForCluster(g) ==
    /\ started = "ok"
    /\ requests[g].pc = "idle"
    /\ \E clusterName \in ConcurrentClusters :
       \E now \in ClockOf({clusterName}) \cap ({NoTime} \cup ConcurrentTimes) :
          requests' = [requests EXCEPT ![g] =
              [pc |-> "lookup", cluster |-> clusterName, now |-> now,
               name |-> reportName(clusterName, now), raced |-> FALSE]]
    /\ UNCHANGED <<reports, started, storage, resp, loader>>

\* the lookup and the rest of ReadReportForCluster; a lookup that overlapped
\* an assignment to the map may also have aborted the process
EndReadReportForCluster(g) ==
    /\ requests[g].pc = "lookup"
    /\ \E r \in {ReadReportForCluster(requests[g].cluster, requests[g].now)} :
       \E out \in {r} \cup (IF requests[g].raced
                            THEN {[report |-> "", err |-> concurrentMapAccess]}
                            ELSE {}) :
          requests' = [requests EXCEPT ![g] =
              [pc |-> "done", cluster |-> requests[g].cluster,
               now |-> requests[g].now, raced |-> requests[g].raced,
               report |-> out.report, err |-> out.err]]
    /\ UNCHANGED <<reports, started, storage, resp, loader>>

\* the answer has been written and the goroutine ends
ReturnRequest(g) ==
    /\ requests[g].pc = "done"
    /\ requests' = [requests EXCEPT ![g] = IdleRequest]
    /\ UNCHANGED <<reports, started, storage, resp, loader>>

\* New(path) is called once more while the server is up
CallNewAgain ==
    /\ started = "ok"
    /\ loader.pc = "idle"
    /\ \E path \in Paths : loader' = [pc |-> "read", path |-> path, i |-> 1]
    /\ UNCHANGED <<reports, started, storage, resp, requests>>

\* initStorage: the loop ends, or readReport(path, cluster) fails or succeeds
LoaderReadReport ==
    /\ loader.pc = "read"
    /\ \/ /\ loader.i > Len(clusters)
          /\ loader' = [pc |-> "returned", err |-> nil]
       \/ /\ loader.i <= Len(clusters)
          /\ \E ok \in BOOLEAN :
                loader' = IF ok THEN [loader EXCEPT !.pc = "store"]
                          ELSE [pc |-> "returned", err |-> "read error"]
    /\ UNCHANGED <<reports, started, storage, resp, requests>>

\* initStorage: reports[cluster] = report, whatever lookups are under way
LoaderStoreReport ==
    /\ loader.pc = "store"
    /\ reports' = [reports EXCEPT ![clusters[loader.i]] =
                      readReportFrom(loader.path, clusters[loader.i])]
    /\ requests' = [g \in Goroutines |->
                      IF requests[g].pc = "lookup"
                      THEN [requests[g] EXCEPT !.raced = TRUE]
                      ELSE requests[g]]
    /\ loader' = [loader EXCEPT !.pc = "read", !.i = loader.i + 1]
    /\ UNCHANGED <<started, storage, resp>>

NextConcurrent ==
    \/ New
    \/ \E g \in Goroutines : BeginReadReportForCluster(g)
    \/ \E g \in Goroutines : EndReadReportForCluster(g)
    \/ \E g \in Goroutines : ReturnRequest(g)
    \/ CallNewAgain
    \/ LoaderReadReport
    \/ LoaderStoreReport

SpecConcurrent == Init /\ [][NextConcurrent]_vars

(***************************************************************************)
(* Properties.                                                             *)
(***************************************************************************)
DeniedOrg == 11940171

\* the organizations of the catalog
CatalogOrgs == {1, 2, 3, 11789772, 11940171}

\* C1: for the denied organization 11940171, ListOfClustersForOrg and
\* ReadReportForOrganizationAndCluster return the error "You have no permissions
\* to get or change info about this organization", an empty cluster list and an
\* empty report, for every cluster name, names of stored reports included.
C1_DeniedOrgGetsNoData ==
    /\ (resp.op = "ListOfClustersForOrg" /\ resp.org = DeniedOrg) =>
          /\ resp.err =
               "You have no permissions to get or change info about this organization"
          /\ resp.clusters = << >>
    /\ (resp.op = "ReadReportForOrganizationAndCluster" /\ resp.org = DeniedOrg) =>
          /\ resp.err =
               "You have no permissions to get or change info about this organization"
          /\ resp.report = ""

C1_Witness ==
    /\ resp.op = "ReadReportForOrganizationAndCluster"
    /\ resp.org = DeniedOrg
    /\ resp.cluster \in DOMAIN reports
    /\ resp.err # nil

\* the clusters of the catalog whose name starts with prefix, in catalog order
CatalogWithPrefix(prefix) == SelectSeq(clusters, LAMBDA c : HasPrefix(c, prefix))

\* the cluster sequence of each organization, read off the catalog of initStorage:
\* its first 14 names belong to 11789772, the names 0000000N-... to organization N
FixedClustersOf(orgID) ==
    CASE orgID = 11789772 -> SubSeq(clusters, 1, 14)
      [] orgID = 1 -> CatalogWithPrefix("00000001-")
      [] orgID = 2 -> CatalogWithPrefix("00000002-")
      [] orgID = 3 -> CatalogWithPrefix("00000003-")
      [] OTHER -> << >>

FixedCountOf(orgID) ==
    CASE orgID \in {11789772, 1} -> 14
      [] orgID \in {2, 3} -> 3
      [] OTHER -> 0

\* C2: for every organization other than the denied one, in every state reached
\* by any sequence of calls, ListOfClustersForOrg returns no error and exactly
\* the fixed ordered cluster sequence of the organization (14 names for
\* 11789772 and for 1, 3 for 2 and for 3, none for any other ID).
C2_FixedClusterList ==
    (resp.op = "ListOfClustersForOrg" /\ resp.org # DeniedOrg) =>
        /\ resp.err = nil
        /\ Len(resp.clusters) = FixedCountOf(resp.org)
        /\ resp.clusters = FixedClustersOf(resp.org)

C2_Witness ==
    /\ resp.op = "ListOfClustersForOrg"
    /\ resp.org = 2
    /\ Len(resp.clusters) = 3

\* C3: an organization outside the catalog is never answered with the
\* permission-denied outcome: its cluster listing is empty without error, the
\* storage answers a report read under it with "Cluster not found" for every
\* cluster name, and the report fetch under it never completes as Unauthorized
\* and completes with 404 for every name that is no synthetic-failure name.
C3_UnknownOrgIsNotDenied ==
    /\ (resp.op = "ListOfClustersForOrg" /\ resp.org \notin CatalogOrgs) =>
          resp.clusters = << >> /\ resp.err = nil
    /\ (resp.op = "ReadReportForOrganizationAndCluster"
            /\ resp.org \notin CatalogOrgs) =>
          resp.err = "Cluster not found" /\ resp.report = ""
    /\ (resp.op = "readReportForOrganizationAndCluster"
            /\ resp.org \notin CatalogOrgs) =>
          /\ resp.kind # "Unauthorized"
          /\ resp.status # 403
          /\ resp.cluster \notin FailingClusters =>
                resp.kind = "NotFound" /\ resp.status = 404

C3_Witness ==
    /\ resp.op = "ReadReportForOrganizationAndCluster"
    /\ resp.org = 1234
    /\ resp.cluster \in DOMAIN reports
    /\ resp.err = clusterNotFoundMessage

\* the position of a candidate in a sequence of pairwise different candidates
IndexIn(variants, c) == (CHOOSE i \in 1..Len(variants) : variants[i] = c) - 1

\* C4: for a candidate sequence of length N >= 1 and a clock reading whose
\* minute of the hour is m, chooseReport returns the candidate at index
\* floor(m / 15) mod N, an index within 0..N-1 that depends on m only; with four
\* different candidates the minutes 0 and 14 give index 0, 15 gives 1, 44 gives
\* 2 and 59 gives 3.
C4_RotationIndex ==
    resp.op = "chooseReport" =>
        LET N == Len(resp.variants)
            m == resp.now % 60
            i == (m \div 15) % N
        IN  /\ i \in 0..(N - 1)
            /\ resp.cluster = resp.variants[i + 1]
            /\ resp.variants = DistinctVariants(4) =>
                  /\ m \in {0, 14} => IndexIn(resp.variants, resp.cluster) = 0
                  /\ m = 15 => IndexIn(resp.variants, resp.cluster) = 1
                  /\ m = 44 => IndexIn(resp.variants, resp.cluster) = 2
                  /\ m = 59 => IndexIn(resp.variants, resp.cluster) = 3

\* four different candidates, minute 59 of the second hour
C4_Witness ==
    /\ resp.op = "chooseReport"
    /\ resp.variants = DistinctVariants(4)
    /\ resp.now = 119
    /\ resp.cluster = "c3"

\* a per-cluster report fetch, with or without organization
IsFetch == resp.op \in {"readReportForCluster", "readReportForOrganizationAndCluster"}

\* the status code written in the last three characters of the test identifiers
CodeInName(clusterName) ==
    CASE clusterName = "ffffffff-ffff-ffff-ffff-000000000200" -> 200
      [] clusterName = "ffffffff-ffff-ffff-ffff-000000000400" -> 400
      [] clusterName = "ffffffff-ffff-ffff-ffff-000000000404" -> 404
      [] clusterName = "ffffffff-ffff-ffff-ffff-000000000500" -> 500
      [] OTHER -> 0

NumericFailingClusters ==
    FailingClusters \ {"ffffffff-ffff-ffff-ffff-000000000fff"}

RECURSIVE Restrict(_, _, _)
Restrict(L, P, i) ==
    IF i > Len(L) THEN << >>
    ELSE IF i \in P THEN <<L[i]>> \o Restrict(L, P, i + 1)
                    ELSE Restrict(L, P, i + 1)

\* number of occurrences of x in L
Count(L, x) == Cardinality({i \in 1..Len(L) : L[i] = x})

IsBatch == resp.op = "readReportForClusters"

\* C7: in a batch under a permitted or absent organization the positions of the
\* input split into two sets: found is the input at the positions of one,
\* errored the input at the positions of the other, both in input order; the
\* lengths add up to the length of the input and an identifier occurs in the two
\* outputs together as often as in the input.
C7_BatchPartition ==
    (IsBatch /\ resp.org # DeniedOrg) =>
        LET L == resp.list
            F == clustersOf(resp.found)
            E == resp.errored
        IN  /\ Len(F) + Len(E) = Len(L)
            /\ \E P \in SUBSET (1..Len(L)) :
                  /\ F = Restrict(L, P, 1)
                  /\ E = Restrict(L, (1..Len(L)) \ P, 1)
            /\ \A id \in Range(L) : Count(F, id) + Count(E, id) = Count(L, id)

\* a found identifier twice and an errored one between its occurrences
C7_Witness ==
    /\ IsBatch
    /\ resp.org = NoOrg
    /\ resp.list = <<knownClusterForOrganization1, unknownClusterForOrganization1,
                     knownClusterForOrganization1>>
    /\ Len(resp.found) = 2
    /\ resp.errored = <<unknownClusterForOrganization1>>

\* every identifier of the batch is a key of the Fixture Store
AllKnown == \A i \in 1..Len(resp.list) : resp.list[i] \in DOMAIN reports

\* L has no identifier twice
Distinct(L) == \A i, j \in 1..Len(L) : L[i] = L[j] => i = j

\* C8 as stated: a batch of k identifiers that are all keys of the Fixture Store
\* returns k clusters, no errors and a reports map with k entries.
C8_Original ==
    (IsBatch /\ resp.org # DeniedOrg /\ AllKnown) =>
        /\ Len(resp.clusters) = Len(resp.list)
        /\ Len(resp.errors) = 0
        /\ Cardinality(DOMAIN resp.reports) = Len(resp.list)

\* C8 (amended): a batch, under a permitted or absent organization, of k
\* identifiers that are all keys of the Fixture Store returns the k identifiers as
\* `clusters` in input order and no errors; every requested identifier is a key
\* of `reports` with its stored payload, and `reports` has one entry per
\* different identifier: k entries when the k identifiers are pairwise different.
C8_KnownClustersBatch ==
    (IsBatch /\ resp.org # DeniedOrg /\ AllKnown) =>
        /\ resp.clusters = resp.list
        /\ Len(resp.errors) = 0
        /\ DOMAIN resp.reports = Range(resp.list)
        /\ \A id \in Range(resp.list) : resp.reports[id] = reports[id]
        /\ Cardinality(DOMAIN resp.reports) = Cardinality(Range(resp.list))
        /\ Distinct(resp.list) =>
              Cardinality(DOMAIN resp.reports) = Len(resp.list)

\* the three known clusters of the test
C8_Witness ==
    /\ IsBatch
    /\ resp.list = <<knownClusterForOrganization1, knownCluster2ForOrganization1,
                     knownCluster3ForOrganization1>>
    /\ Len(resp.clusters) = 3
    /\ Cardinality(DOMAIN resp.reports) = 3

\* C9: a batch, under a permitted or absent organization, whose only identifier
\* is absent from the Fixture Store and is no rotating identifier returns no
\* clusters, no reports and that identifier as its one error; at any position
\* of any such batch, an identifier that is absent from the store and is no
\* rotating identifier is among the errors and not among the clusters.
C9_UnknownClusterIsAnError ==
    (IsBatch /\ resp.org # DeniedOrg) =>
        LET absent == {id \in Range(resp.list) :
                          id \notin DOMAIN reports /\ id \notin DOMAIN changingClusters}
        IN  /\ \A id \in absent :
                  /\ Count(resp.errors, id) = Count(resp.list, id)
                  /\ Count(resp.clusters, id) = 0
                  /\ id \notin DOMAIN resp.reports
            /\ (Len(resp.list) = 1 /\ resp.list[1] \in absent) =>
                  /\ Len(resp.clusters) = 0
                  /\ Cardinality(DOMAIN resp.reports) = 0
                  /\ resp.errors = resp.list

C9_Witness ==
    /\ IsBatch
    /\ resp.list = <<unknownClusterForOrganization1>>
    /\ resp.errors = <<unknownClusterForOrganization1>>
    /\ resp.clusters = << >>

\* C10: a batch under the denied organization fails as a whole with
\* Unauthorized: nothing is found and no payload is returned, whatever the
\* identifiers are and however many there are.
C10_DeniedBatchFails ==
    (IsBatch /\ resp.org = DeniedOrg) =>
        /\ resp.kind = "Unauthorized"
        /\ resp.found = << >>
        /\ resp.clusters = << >>
        /\ DOMAIN resp.reports = {}

\* a known, a rotating and a synthetic-failure identifier under the denied
\* organization
C10_Witness ==
    /\ IsBatch
    /\ resp.org = DeniedOrg
    /\ resp.list = <<knownClusterForOrganization1,
                     "cccccccc-cccc-cccc-cccc-000000000001",
                     "ffffffff-ffff-ffff-ffff-000000000400">>
    /\ resp.kind = "Unauthorized"

\* the 15-minute window of the hour a clock reading falls into: 0, 1, 2 or 3
Window(now) == (now % 60) \div 15

\* the backing cluster of cccccccc-cccc-cccc-cccc-000000000001 in each window
BackingOfChanging1(now) ==
    CASE Window(now) = 1 -> "74ae54aa-6577-4e80-85e7-697cb646ff37"
      [] Window(now) = 2 -> "a7467445-8d6a-43cc-b82c-7007664bdf69"
      [] OTHER -> "34c3ecc5-624a-49a5-bab8-4fdc5e51a266"

\* C11: a rotating identifier of a batch (under a permitted or absent
\* organization) is found under the requested identifier: it is in `clusters`
\* as often as requested and is a key of `reports` whose payload is the one
\* stored under the backing identifier chosen by rotation; the backing
\* identifier itself appears in `clusters` and `reports` only when it was
\* requested too.
C11_RequestedIdentifierIsTheKey ==
    (IsBatch /\ resp.org # DeniedOrg
        /\ "cccccccc-cccc-cccc-cccc-000000000001" \in Range(resp.list)) =>
        LET id      == "cccccccc-cccc-cccc-cccc-000000000001"
            backing == BackingOfChanging1(resp.now)
        IN  /\ Count(resp.clusters, id) = Count(resp.list, id)
            /\ id \in DOMAIN resp.reports
            /\ resp.reports[id] = reports[backing]
            /\ \A i \in 1..Len(resp.found) :
                  resp.found[i].identifier = id =>
                      resp.found[i].payload = reports[backing]
            /\ Count(resp.clusters, backing) = Count(resp.list, backing)
            /\ backing \in DOMAIN resp.reports => backing \in Range(resp.list)

\* the rotating identifier alone, in the second window of the second hour
C11_Witness ==
    /\ IsBatch
    /\ resp.list = <<"cccccccc-cccc-cccc-cccc-000000000001">>
    /\ resp.now = 80
    /\ resp.clusters = <<"cccccccc-cccc-cccc-cccc-000000000001">>
    /\ DOMAIN resp.reports = {"cccccccc-cccc-cccc-cccc-000000000001"}
    /\ resp.reports["cccccccc-cccc-cccc-cccc-000000000001"] =
          reports["74ae54aa-6577-4e80-85e7-697cb646ff37"]

\* the organizations ReadReportForOrganizationAndCluster recognizes and permits
PermittedOrgs == {1, 2, 3, 11789772}

\* cluster names that are neither stored, nor rotating, nor synthetic failures
OrdinaryUnknown(clusterName) ==
    /\ clusterName \notin DOMAIN reports
    /\ clusterName \notin DOMAIN changingClusters
    /\ clusterName \notin FailingClusters

\* C12: for a cluster name that is no key of the Fixture Store and neither a
\* rotating nor a synthetic-failure name, ReadReportForCluster and, under each
\* recognized permitted organization, ReadReportForOrganizationAndCluster return
\* the error "Cluster not found" with an empty report, and the report fetch
\* completes with 404 and no payload.
C12_UnknownClusterNotFound ==
    /\ (resp.op = "ReadReportForCluster" /\ OrdinaryUnknown(resp.cluster)) =>
          resp.err = "Cluster not found" /\ resp.report = ""
    /\ (resp.op = "ReadReportForOrganizationAndCluster"
            /\ resp.org \in PermittedOrgs /\ OrdinaryUnknown(resp.cluster)) =>
          resp.err = "Cluster not found" /\ resp.report = ""
    /\ (IsFetch /\ resp.org \in PermittedOrgs \cup {NoOrg}
            /\ OrdinaryUnknown(resp.cluster)) =>
          resp.kind = "NotFound" /\ resp.status = 404 /\ resp.report = ""

C12_Witness ==
    /\ resp.op = "ReadReportForCluster"
    /\ resp.cluster = unknownCluster
    /\ resp.err = clusterNotFoundMessage

\* C13: after a startup in which the read of some catalog payload failed, the
\* Fixture Store is not partially populated (no catalog identifier can be
\* resolved in it) and no store instance has been handed to the caller.
C13_FailedStartupLeavesNothing ==
    started = "failed" =>
        /\ \A c \in Catalog : ~getReportForCluster(c).ok
        /\ storage = "none"

\* the Fixture Store right after a successful startup: one payload for each of
\* the 34 cluster names of the catalog
StoreAfterStartup == [c \in Catalog |-> readReport(c)]

\* C14: once startup has succeeded, the Fixture Store holds the keys and
\* payloads it held right after startup, whatever request-time operations
\* (ListOfOrgs, ListOfClustersForOrg, ReadReportForCluster,
\* ReadReportForOrganizationAndCluster, GetPredictionForCluster and the
\* handlers built on them) have run since.
C14_RequestsLeaveTheStoreAlone ==
    started = "ok" => reports = StoreAfterStartup

\* a rotating cluster has just been read, the one operation that rewrites a name
C14_Witness ==
    /\ resp.op = "ReadReportForCluster"
    /\ resp.cluster \in DOMAIN changingClusters
    /\ resp.err = nil
    /\ Cardinality(DOMAIN reports) = 34
    /\ resp.cluster \notin DOMAIN reports

\* what ReadReportForCluster returns when nothing else runs: the lookup is made
\* in the store as the startup left it
ReadAlone(clusterName, now) ==
    LET name == reportName(clusterName, now)
    IN  IF name \in DOMAIN StoreAfterStartup
        THEN [report |-> StoreAfterStartup[name], err |-> nil]
        ELSE [report |-> "", err |-> clusterNotFoundMessage]

\* C15: under every interleaving of requests served side by side and of the
\* operations the storage package exposes, every completed request has the
\* outcome it has when run alone at the same minute, and no step has written
\* the map while a request was reading it.
C15_ParallelRequestsAreIndependent ==
    \A g \in Goroutines :
        /\ requests[g].pc = "lookup" => ~requests[g].raced
        /\ requests[g].pc = "done" =>
              /\ ~requests[g].raced
              /\ requests[g].report =
                    ReadAlone(requests[g].cluster, requests[g].now).report
              /\ requests[g].err =
                    ReadAlone(requests[g].cluster, requests[g].now).err

\* requests that only run beside other requests do get the outcome of a run alone
ReadersAloneAgree ==
    loader.pc = "idle" => C15_ParallelRequestsAreIndependent

\* C16: a per-cluster fetch of a rotating cluster under a permitted
\* organization is resolved through the rotation as well: it returns, without
\* error, the payload a fetch of the same cluster without organization returns
\* at some minute of the clock, and never "Cluster not found".
C16_RotationOnEveryPath ==
    /\ (resp.op = "ReadReportForOrganizationAndCluster"
            /\ resp.org \in PermittedOrgs
            /\ resp.cluster \in DOMAIN changingClusters) =>
          /\ resp.err = nil
          /\ \E now \in Times :
                resp.report = ReadReportForCluster(resp.cluster, now).report
    /\ (resp.op = "readReportForOrganizationAndCluster"
            /\ resp.org \in PermittedOrgs
            /\ resp.cluster \in DOMAIN changingClusters) =>
          /\ resp.kind = "Found"
          /\ \E now \in Times :
                resp.report = readReportForCluster(resp.cluster, now).report

\* the found/errored partition of a batch that lists L under orgID
PartitionOf(orgID, L, now) ==
    LET b == resolveAll(orgID, L, now)
    IN  [found |-> b.found, errored |-> b.errored]

\* a single-cluster answer and a one-element batch say the same: the cluster is
\* found with the same payload by both, or by neither
SameAsOneElementBatch(orgID, now) ==
    LET b == resolveAll(orgID, <<resp.cluster>>, now)
    IN  IF resp.kind = "Found"
        THEN /\ b.errored = << >>
             /\ b.found = <<[identifier |-> resp.cluster, payload |-> resp.report]>>
        ELSE /\ b.found = << >>
             /\ (b.kind = "Resolved" => b.errored = <<resp.cluster>>)
             /\ (b.kind = "Unauthorized" <=> resp.kind = "Unauthorized")

\* the whole-organization request of a permitted organization has the partition
\* of the batch over ListOfClustersForOrg(org)
C17_WholeOrganizationPart ==
    (resp.op = "readReportForAllClustersInOrg" /\ resp.org \in PermittedOrgs) =>
        [found |-> resp.found, errored |-> resp.errored] =
            PartitionOf(resp.org, ListOfClustersForOrg(resp.org).clusters, NoTime)

\* the fetch without organization is a one-element batch without organization
C17_SingleClusterPart ==
    resp.op = "readReportForCluster" => SameAsOneElementBatch(NoOrg, resp.now)

\* the fetch under an organization is a one-element batch under it, at any minute
C17_SingleClusterOfOrgPart ==
    resp.op = "readReportForOrganizationAndCluster" =>
        \A now \in ClockOf({resp.cluster}) : SameAsOneElementBatch(resp.org, now)

\* C17: a whole-organization request of a permitted organization returns the
\* found/errored partition of the batch request that lists
\* ListOfClustersForOrg(org) in that order, and a single-cluster request has the
\* outcome of the batch of that one cluster.
C17_DegenerateCasesOfTheBatch ==
    /\ C17_WholeOrganizationPart
    /\ C17_SingleClusterPart
    /\ C17_SingleClusterOfOrgPart

HasClusterReport(orgID) ==
    \E c \in Range(ListOfClustersForOrg(orgID).clusters) : c \in DOMAIN reports

\* C19: ListOfOrgs returns, without error, exactly the organizations that have
\* at least one cluster report.
C19_ListOfOrgsIsTheOrgsWithReports ==
    resp.op = "ListOfOrgs" =>
        /\ resp.err = nil
        /\ \A orgID \in OrgIDs :
              orgID \in Range(resp.orgs) <=> HasClusterReport(orgID)
        /\ \A orgID \in Range(resp.orgs) : HasClusterReport(orgID)

\* the cluster whose report a rotating cluster shows in the window with the
\* given candidate index
ShownAtIndex(clusterName, idx) ==
    CASE clusterName = "cccccccc-cccc-cccc-cccc-000000000001" ->
            << "34c3ecc5-624a-49a5-bab8-4fdc5e51a266",
               "74ae54aa-6577-4e80-85e7-697cb646ff37",
               "a7467445-8d6a-43cc-b82c-7007664bdf69" >>[idx + 1]
      [] clusterName = "cccccccc-cccc-cccc-cccc-000000000002" ->
            << "74ae54aa-6577-4e80-85e7-697cb646ff37",
               "a7467445-8d6a-43cc-b82c-7007664bdf69",
               "ee7d2bf4-8933-4a3a-8634-3328fe806e08" >>[idx + 1]
      [] clusterName = "cccccccc-cccc-cccc-cccc-000000000003" ->
            IF idx = 2 THEN "34c3ecc5-624a-49a5-bab8-4fdc5e51a266"
                       ELSE "ee7d2bf4-8933-4a3a-8634-3328fe806e08"
      [] clusterName = "cccccccc-cccc-cccc-cccc-000000000004" ->
            IF idx = 2 THEN "34c3ecc5-624a-49a5-bab8-4fdc5e51a266"
                       ELSE "eeeeeeee-eeee-eeee-eeee-000000000001"

\* the candidate index of a minute of the hour: [0,15) and [45,60) give 0,
\* [15,30) gives 1 and [30,45) gives 2
IndexOfMinute(m) ==
    IF m < 15 \/ m >= 45 THEN 0 ELSE IF m < 30 THEN 1 ELSE 2

\* C20: the four candidate sequences of the Rotation Table have length 3, and
\* at every minute of the hour every rotating cluster shows the report of the
\* candidate its window points at: index 0 in [0,15) and again in [45,60),
\* index 1 in [15,30), index 2 in [30,45); a candidate that occurs twice in a
\* sequence is shown in both of its windows.
C20_FourWindowsWrapAround ==
    /\ Cardinality(DOMAIN changingClusters) = 4
    /\ \A c \in DOMAIN changingClusters : Len(changingClusters[c]) = 3
    /\ (resp.op = "ReadReportForCluster"
            /\ resp.cluster \in DOMAIN changingClusters) =>
          /\ resp.err = nil
          /\ resp.report =
                reports[ShownAtIndex(resp.cluster, IndexOfMinute(resp.now % 60))]

\* cccccccc-cccc-cccc-cccc-000000000003 in the last window of the second hour
\* shows its first candidate, which is also its second
C20_Witness ==
    /\ resp.op = "ReadReportForCluster"
    /\ resp.cluster = "cccccccc-cccc-cccc-cccc-000000000003"
    /\ resp.now = 110
    /\ resp.report = reports["ee7d2bf4-8933-4a3a-8634-3328fe806e08"]

\* the candidates of all rotating clusters
AllCandidates ==
    UNION {Range(changingClusters[c]) : c \in DOMAIN changingClusters}

\* C21: after a successful startup every candidate of every rotating cluster
\* is a key of the Fixture Store, and ReadReportForCluster on a rotating
\* cluster returns, at every minute, without error, the payload stored under
\* the candidate it chose, which is one of that cluster's candidates.
C21_RotatingClustersAlwaysResolve ==
    /\ started = "ok" => AllCandidates \subseteq DOMAIN reports
    /\ (resp.op = "ReadReportForCluster"
            /\ resp.cluster \in DOMAIN changingClusters) =>
          /\ resp.err = nil
          /\ resp.err # clusterNotFoundMessage
          /\ reportName(resp.cluster, resp.now)
                \in Range(changingClusters[resp.cluster])
          /\ reportName(resp.cluster, resp.now) \in DOMAIN reports
          /\ resp.report = reports[reportName(resp.cluster, resp.now)]
          /\ resp.report # ""

\* the fourth rotating cluster in the third window shows the first cluster of
\* the catalog
C21_Witness ==
    /\ resp.op = "ReadReportForCluster"
    /\ resp.cluster = "cccccccc-cccc-cccc-cccc-000000000004"
    /\ resp.now = 40
    /\ resp.err = nil
    /\ resp.report = reports["34c3ecc5-624a-49a5-bab8-4fdc5e51a266"]
    /\ Cardinality(AllCandidates) = 5

\* the clusters ListOfClustersForOrg lists for an organization
ListedFor(orgID) == Range(ListOfClustersForOrg(orgID).clusters)

\* C22: once a successful startup has made the server ready, the clusters
\* listed for the organizations 1, 2, 3 and 11789772 are exactly the keys of
\* the Fixture Store, no cluster is listed for two of these organizations, and
\* the report of every listed cluster, fetched under its own organization, is
\* returned without error.
C22_ListedClustersAreTheStore ==
    /\ Serving =>
          /\ UNION {ListedFor(o) : o \in PermittedOrgs} = DOMAIN reports
          /\ \A o1, o2 \in PermittedOrgs :
                o1 # o2 => ListedFor(o1) \cap ListedFor(o2) = {}
          /\ \A o \in PermittedOrgs : \A c \in ListedFor(o) :
                /\ ReadReportForOrganizationAndCluster(o, c).err = nil
                /\ ReadReportForOrganizationAndCluster(o, c).report = reports[c]
    /\ (resp.op = "ReadReportForOrganizationAndCluster"
            /\ resp.org \in PermittedOrgs
            /\ resp.cluster \in ListedFor(resp.org)) =>
          resp.err = nil /\ resp.report = reports[resp.cluster]

\* the report of a cluster of organization 3 has been fetched under organization 3
C22_Witness ==
    /\ resp.op = "ReadReportForOrganizationAndCluster"
    /\ resp.org = 3
    /\ resp.cluster = "00000003-8d6a-43cc-b82c-7007664bdf69"
    /\ resp.cluster \in ListedFor(3)
    /\ resp.err = nil
    /\ Cardinality(DOMAIN reports) = 34

\* C23: for the organizations 1, 2, 3 and 11789772 the answer of
\* ReadReportForOrganizationAndCluster depends only on whether the cluster name
\* is a key of the Fixture Store: the stored report without error if it is,
\* "Cluster not found" if it is not, and the same answer for each of the four
\* organizations, whether or not the cluster is listed for the one that asks.
C23_NoOwnershipCheck ==
    (resp.op = "ReadReportForOrganizationAndCluster"
        /\ resp.org \in PermittedOrgs) =>
        /\ resp.cluster \in DOMAIN reports =>
              resp.err = nil /\ resp.report = reports[resp.cluster]
        /\ resp.cluster \notin DOMAIN reports =>
              resp.err = clusterNotFoundMessage /\ resp.report = ""
        /\ \A other \in PermittedOrgs :
              ReadReportForOrganizationAndCluster(other, resp.cluster) =
                  [report |-> resp.report, err |-> resp.err]

\* organization 2 has been given the report of a cluster of organization 1
C23_Witness ==
    /\ resp.op = "ReadReportForOrganizationAndCluster"
    /\ resp.org = 2
    /\ resp.cluster = "00000001-624a-49a5-bab8-4fdc5e51a266"
    /\ resp.cluster \notin ListedFor(2)
    /\ resp.cluster \in ListedFor(1)
    /\ resp.err = nil
    /\ resp.report = reports["00000001-624a-49a5-bab8-4fdc5e51a266"]

====
